---- MODULE Spec2Model ----
(***************************************************************************)
(* European digital slope pricing engine: pricing primitives               *)
(* (black_scholes.py), surface query (utils.py), risk markup               *)
(* (risk_markup.py) and the engine (pricing_engine.py).                    *)
(*                                                                         *)
(* Real-valued quantities (prices, rates, volatilities, probabilities,     *)
(* time in years) live on a fixed-point grid of ONE units per 1.0; every   *)
(* expression is rounded to the grid once.  time_to_expiry is held in      *)
(* seconds of a 365-day year (T * 365 * 86400), which makes the code's     *)
(* comparisons of T with 1/365, 7/365 and 18060 s exact; Years converts    *)
(* it to the grid where a formula needs T as a number of years.            *)
(***************************************************************************)
EXTENDS Integers, Sequences, FiniteSets, TLC

\* ---------------------------------------------------------------- numerics
ONE == 10 ^ 4

Abs(x) == IF x < 0 THEN -x ELSE x
Sgn(x) == IF x < 0 THEN -1 ELSE 1
Min2(a, b) == IF b < a THEN b ELSE a
Max2(a, b) == IF b > a THEN b ELSE a

\* a / b rounded to the nearest grid point, halves away from zero (b > 0)
RDiv(a, b) == Sgn(a) * ((Abs(a) + b \div 2) \div b)
\* product and quotient of two grid values
Mul(a, b) == RDiv(a * b, ONE)
Div(a, b) == Sgn(b) * RDiv(a * ONE, Abs(b))

RECURSIVE SqrtIter(_, _, _)
SqrtIter(n, lo, hi) ==
    IF lo >= hi THEN lo
    ELSE LET mid == (lo + hi + 1) \div 2
         IN IF mid * mid <= n THEN SqrtIter(n, mid, hi)
                              ELSE SqrtIter(n, lo, mid - 1)

\* np.sqrt: sqrt(x / ONE) * ONE is the integer square root of x * ONE
Sqrt(x) ==
    LET n == x * ONE
        f == SqrtIter(n, 0, 46340)
    IN IF (f + 1) * (f + 1) - n < n - f * f THEN f + 1 ELSE f

\* np.exp: halving until |x| <= 1/4, then the Taylor polynomial of degree 4
RECURSIVE Exp(_)
Exp(x) ==
    IF x < -12 * ONE THEN 0
    ELSE IF Abs(x) > ONE \div 4
    THEN LET h == Exp(x \div 2) IN Mul(h, h)
    ELSE LET x2 == Mul(x, x)
             x3 == Mul(x2, x)
             x4 == Mul(x3, x)
         IN ONE + x + RDiv(x2, 2) + RDiv(x3, 6) + RDiv(x4, 24)

\* np.log for y > 0: scaling by 2 into [3/4, 3/2], then 2 * atanh((y-1)/(y+1))
RECURSIVE Ln(_)
Ln(y) ==
    IF y > (3 * ONE) \div 2 THEN Ln(RDiv(y, 2)) + 6931
    ELSE IF y < (3 * ONE) \div 4 THEN Ln(2 * y) - 6931
    ELSE LET z == Div(y - ONE, y + ONE)
             z2 == Mul(z, z)
             z3 == Mul(z2, z)
             z5 == Mul(z3, z2)
         IN 2 * z + RDiv(2 * z3, 3) + RDiv(2 * z5, 5)

\* scipy.stats.norm.pdf: exp(-x^2 / 2) / sqrt(2 pi)
norm_pdf(x) ==
    IF Abs(x) > 6 * ONE THEN 0
    ELSE Mul(3989, Exp(-RDiv(x * x, 2 * ONE)))

\* scipy.stats.norm.cdf for x >= 0 (Abramowitz-Stegun 26.2.17)
norm_cdf_pos(x) ==
    IF x > 6 * ONE THEN ONE
    ELSE LET t == Div(ONE, ONE + Mul(2316, x))
             poly == Mul(t, 3194 + Mul(t, -3566 + Mul(t, 17815
                        + Mul(t, -18213 + Mul(t, 13303)))))
         IN ONE - Mul(norm_pdf(x), poly)

\* scipy.stats.norm.cdf: the lower tail is 1 minus the upper tail
norm_cdf(x) == IF x >= 0 THEN norm_cdf_pos(x) ELSE ONE - norm_cdf_pos(-x)

\* T in years on the grid, from time_to_expiry in seconds of a 365-day year
Years(tte) == RDiv(tte * 10, 31536)

\* --------------------------------------------------------------- constants
ContractType == {"CALL", "PUT", "EXPIRYMISS", "EXPIRYRANGE"}
PricingCurrency == {"base", "numeraire", "quanto"}

\* an operation's outcome: a returned number, or a raised exception
Ok(v) == [raised |-> "none", value |-> v]
Raise(e) == [raised |-> e, value |-> 0]

\* ----------------------------------------------------- black_scholes.py
d1(spot, strike, time, rate, div, vol) ==
    Div(Ln(Div(spot, strike))
          + Mul(rate - div + RDiv(Mul(vol, vol), 2), time),
        Mul(vol, Sqrt(time)))

d2(d1_value, vol, time) == d1_value - Mul(vol, Sqrt(time))

\* the degenerate limit pays at the money as well
binary_call_paying_at_the_money(spot, strike, time, rate, div, vol) ==
    IF vol <= 0 \/ time <= 0
    THEN IF spot >= strike THEN ONE ELSE 0
    ELSE LET d1_val == d1(spot, strike, time, rate, div, vol)
             d2_val == d2(d1_val, vol, time)
         IN Mul(Exp(-Mul(rate, time)), norm_cdf(d2_val))

binary_call(spot, strike, time, rate, div, vol) ==
    IF vol <= 0 \/ time <= 0
    THEN IF spot > strike THEN ONE ELSE 0
    ELSE LET d1_val == d1(spot, strike, time, rate, div, vol)
             d2_val == d2(d1_val, vol, time)
         IN Mul(Exp(-Mul(rate, time)), norm_cdf(d2_val))

\* the put priced on the same tail of the distribution as the call
binary_put_same_tail(spot, strike, time, rate, div, vol) ==
    IF vol <= 0 \/ time <= 0
    THEN IF spot < strike THEN ONE ELSE 0
    ELSE LET d1_val == d1(spot, strike, time, rate, div, vol)
             d2_val == d2(d1_val, vol, time)
         IN Mul(Exp(-Mul(rate, time)), norm_cdf(d2_val))

binary_put(spot, strike, time, rate, div, vol) ==
    IF vol <= 0 \/ time <= 0
    THEN IF spot < strike THEN ONE ELSE 0
    ELSE LET d1_val == d1(spot, strike, time, rate, div, vol)
             d2_val == d2(d1_val, vol, time)
         IN Mul(Exp(-Mul(rate, time)), norm_cdf(-d2_val))

vanilla_call(spot, strike, time, rate, div, vol) ==
    IF vol <= 0 \/ time <= 0
    THEN Max2(0, spot - strike)
    ELSE LET d1_val == d1(spot, strike, time, rate, div, vol)
             d2_val == d2(d1_val, vol, time)
         IN Mul(Mul(spot, Exp(-Mul(div, time))), norm_cdf(d1_val))
            - Mul(Mul(strike, Exp(-Mul(rate, time))), norm_cdf(d2_val))

vanilla_put(spot, strike, time, rate, div, vol) ==
    IF vol <= 0 \/ time <= 0
    THEN Max2(0, strike - spot)
    ELSE LET d1_val == d1(spot, strike, time, rate, div, vol)
             d2_val == d2(d1_val, vol, time)
         IN Mul(Mul(strike, Exp(-Mul(rate, time))), norm_cdf(-d2_val))
            - Mul(Mul(spot, Exp(-Mul(div, time))), norm_cdf(-d1_val))

delta_binary_call(spot, strike, time, rate, div, vol) ==
    IF vol <= 0 \/ time <= 0
    THEN 0
    ELSE LET d1_val == d1(spot, strike, time, rate, div, vol)
             d2_val == d2(d1_val, vol, time)
         IN Div(Mul(Exp(-Mul(rate, time)), norm_pdf(d2_val)),
                Mul(spot, Mul(vol, Sqrt(time))))

delta_binary_put(spot, strike, time, rate, div, vol) ==
    -delta_binary_call(spot, strike, time, rate, div, vol)

vega_binary_call(spot, strike, time, rate, div, vol) ==
    IF vol <= 0 \/ time <= 0
    THEN 0
    ELSE LET d1_val == d1(spot, strike, time, rate, div, vol)
             d2_val == d2(d1_val, vol, time)
         IN Div(Mul(-Mul(Exp(-Mul(rate, time)), norm_pdf(d2_val)), d2_val),
                vol)

vega_binary_put(spot, strike, time, rate, div, vol) ==
    -vega_binary_call(spot, strike, time, rate, div, vol)

vega_vanilla_call(spot, strike, time, rate, div, vol) ==
    IF vol <= 0 \/ time <= 0
    THEN 0
    ELSE LET d1_val == d1(spot, strike, time, rate, div, vol)
         IN Mul(Mul(Mul(spot, Exp(-Mul(div, time))), Sqrt(time)),
                norm_pdf(d1_val))

vega_vanilla_put(spot, strike, time, rate, div, vol) ==
    vega_vanilla_call(spot, strike, time, rate, div, vol)

\* every selector other than CALL prices a put
price_binary_option_put_otherwise(contract_type, spot, strike, time, rate, div, vol) ==
    IF contract_type = "CALL"
    THEN Ok(binary_call(spot, strike, time, rate, div, vol))
    ELSE Ok(binary_put(spot, strike, time, rate, div, vol))

price_binary_option(contract_type, spot, strike, time, rate, div, vol) ==
    IF contract_type = "CALL"
    THEN Ok(binary_call(spot, strike, time, rate, div, vol))
    ELSE IF contract_type = "PUT"
    THEN Ok(binary_put(spot, strike, time, rate, div, vol))
    ELSE Raise("ValueError")

\* ---------------------------------------------------------------- utils.py
\* sorted(): the elements of a finite set of numbers in ascending order
RECURSIVE sorted(_)
sorted(S) ==
    IF S = {} THEN <<>>
    ELSE LET m == CHOOSE x \in S : \A y \in S : x <= y
         IN <<m>> \o sorted(S \ {m})

\* the duration without the cap at 730 days
calculate_time_to_expiry_uncapped(start_date, expiry_date) ==
    Max2(0, expiry_date - start_date)

\* seconds between start and expiry, floored at epsilon (below one second,
\* so 0 here) and capped at 730 days
calculate_time_to_expiry(start_date, expiry_date) ==
    Min2(730 * 86400, Max2(0, expiry_date - start_date))

\* the last minimiser in ascending order
closest_tenor_last_minimiser(vol_surface, time_to_expiry) ==
    LET tenors == sorted(DOMAIN vol_surface)
        dist(x) == Abs(x * 86400 - time_to_expiry)
        best == CHOOSE i \in 1..Len(tenors) :
                    /\ \A j \in 1..Len(tenors) : dist(tenors[i]) <= dist(tenors[j])
                    /\ \A j \in (i + 1)..Len(tenors) : dist(tenors[j]) > dist(tenors[i])
    IN tenors[best]

\* min(tenors, key = |x - T * 365|): the first minimiser in ascending order
closest_tenor(vol_surface, time_to_expiry) ==
    LET tenors == sorted(DOMAIN vol_surface)
        dist(x) == Abs(x * 86400 - time_to_expiry)
        best == CHOOSE i \in 1..Len(tenors) :
                    /\ \A j \in 1..Len(tenors) : dist(tenors[i]) <= dist(tenors[j])
                    /\ \A j \in 1..(i - 1) : dist(tenors[j]) > dist(tenors[i])
    IN tenors[best]

\* delta = 50 + (moneyness / (2 * pi)) * 100, on the grid
delta_coordinate(spot, strike, time_to_expiry, q_rate, r_rate) ==
    LET forward == Mul(spot, Exp(Mul(r_rate - q_rate, Years(time_to_expiry))))
        moneyness == Ln(Div(strike, forward))
    IN 50 * ONE + RDiv(moneyness * 125000, 7854)

\* the second volatility enters without its weight
interpolate_unweighted(vol_lo, vol_hi, num, den) ==
    RDiv(vol_lo * (den - num) + vol_hi * den, den)

\* vols[i] * (1 - w) + vols[i + 1] * w with w = num / den
interpolate(vol_lo, vol_hi, num, den) ==
    RDiv(vol_lo * (den - num) + vol_hi * num, den)

\* the lookup without the two clamps: out of range falls to the 50 point
smile_lookup_unclamped(smile_data, deltas, delta) ==
    IF \E i \in 1..(Len(deltas) - 1) :
           deltas[i] * ONE <= delta /\ delta <= deltas[i + 1] * ONE
    THEN LET i == CHOOSE k \in 1..(Len(deltas) - 1) :
                     /\ deltas[k] * ONE <= delta /\ delta <= deltas[k + 1] * ONE
                     /\ \A j \in 1..(k - 1) :
                            ~(deltas[j] * ONE <= delta /\ delta <= deltas[j + 1] * ONE)
         IN interpolate(smile_data[deltas[i]], smile_data[deltas[i + 1]],
                        delta - deltas[i] * ONE, (deltas[i + 1] - deltas[i]) * ONE)
    ELSE smile_data[50]

\* the bracket test excludes the two end points of each interval
lookup_branch_open_brackets(deltas, delta) ==
    IF delta <= deltas[1] * ONE THEN "low"
    ELSE IF delta >= deltas[Len(deltas)] * ONE THEN "high"
    ELSE IF \E i \in 1..(Len(deltas) - 1) :
                deltas[i] * ONE < delta /\ delta < deltas[i + 1] * ONE
    THEN "bracket"
    ELSE "fallback"

\* the return statement the lookup leaves by: the low clamp, the high
\* clamp, the interpolation loop or the fallback to the 50 point
lookup_branch(deltas, delta) ==
    IF delta <= deltas[1] * ONE THEN "low"
    ELSE IF delta >= deltas[Len(deltas)] * ONE THEN "high"
    ELSE IF \E i \in 1..(Len(deltas) - 1) :
                deltas[i] * ONE <= delta /\ delta <= deltas[i + 1] * ONE
    THEN "bracket"
    ELSE "fallback"

\* the value returned by the given return statement
lookup_value(branch, smile_data, deltas, delta) ==
    CASE branch = "low" -> smile_data[deltas[1]]
      [] branch = "high" -> smile_data[deltas[Len(deltas)]]
      [] branch = "bracket" ->
            LET i == CHOOSE k \in 1..(Len(deltas) - 1) :
                     /\ deltas[k] * ONE <= delta /\ delta <= deltas[k + 1] * ONE
                     /\ \A j \in 1..(k - 1) :
                            ~(deltas[j] * ONE <= delta /\ delta <= deltas[j + 1] * ONE)
            IN interpolate(smile_data[deltas[i]], smile_data[deltas[i + 1]],
                           delta - deltas[i] * ONE, (deltas[i + 1] - deltas[i]) * ONE)
      [] OTHER -> smile_data[50]

\* the lookup of the synthetic coordinate delta in one smile: the clamps,
\* the interpolation loop and the fallback to the 50 point
smile_lookup(smile_data, deltas, delta) ==
    lookup_value(lookup_branch(deltas, delta), smile_data, deltas, delta)

tenor_smile(vol_surface, time_to_expiry) ==
    vol_surface[closest_tenor(vol_surface, time_to_expiry)].smile

get_volatility_from_surface(vol_surface, spot, strike, time_to_expiry, q_rate, r_rate) ==
    smile_lookup(tenor_smile(vol_surface, time_to_expiry),
                 sorted(DOMAIN tenor_smile(vol_surface, time_to_expiry)),
                 delta_coordinate(spot, strike, time_to_expiry, q_rate, r_rate))

\* a gap of exactly 5 seconds counts as forward starting
is_forward_starting_from_5(pricing_date, start_date) == start_date - pricing_date >= 5

is_forward_starting(pricing_date, start_date) == start_date - pricing_date > 5

\* no duration counts as intraday
is_intraday_never(time_to_expiry) == FALSE

\* a duration of exactly one day is not intraday
is_intraday_below_one_day(time_to_expiry) == time_to_expiry < 86400

\* time_to_expiry <= 1 / 365
is_intraday(time_to_expiry) == time_to_expiry <= 86400

\* ---------------------------------------------------- underlying_config.py
\* symbol.startswith("frx"), over the symbols of the catalogue
startswith_frx(symbol) == symbol \in {"frxEURUSD", "frxXAGUSD"}

by_symbol(symbol) ==
    IF startswith_frx(symbol)
    THEN [market |-> "forex", submarket |-> "", pip_size |-> 1,
          spot_spread_size |-> 50 * ONE]
    ELSE [market |-> "indices", submarket |-> "", pip_size |-> 100,
          spot_spread_size |-> 50 * ONE]

\* ---------------------------------------------------------- risk_markup.py
EmptyDict == [k \in {} |-> 0]
Put(dict, key, value) == (key :> value) @@ dict

\* MarkupParameters(): the dataclass defaults
MarkupParameters ==
    [spot_spread_size |-> 50 * ONE, pip_size |-> 1, vol_spread |-> 100,
     equal_tie_amount |-> 100, model_arbitrage_amount |-> 500,
     smile_uncertainty_amount |-> 500, hour_end_markup_parameters |-> <<>>]

HourEndMarkup_calculate_markup(hour_end_markup_parameters, spot_min, spot_max) == 0
EqualTieMarkup_calculate_markup(underlying_symbol, time_to_expiry) == 100
ModelArbitrageMarkup_calculate_markup == 500

\* str.lower(), over the market classes of the catalogue
lower(s) ==
    CASE s = "Forex" -> "forex"
      [] s = "INDICES" -> "indices"
      [] OTHER -> s

\* str.endswith(("_basket", "forex_basket", "commodity_basket"))
endswith_basket(s) == s \in {"forex_basket", "commodity_basket", "crypto_basket"}

\* RiskMarkup.__init__; parameters is <<>> for None, else <<MarkupParameters>>
RiskMarkup(is_atm, is_fwd, time_to_expiry, market_type, for_sale, parameters) ==
    [is_atm |-> is_atm,
     is_forward_starting |-> is_fwd,
     time_to_expiry |-> time_to_expiry,
     market_type |-> lower(market_type),
     for_sale |-> for_sale,
     params |-> IF parameters = <<>> THEN MarkupParameters ELSE parameters[1],
     debug_info |-> EmptyDict]

\* every market class counts as traded
_apply_traded_market_markup_any_class(rm) == TRUE

_apply_traded_market_markup(rm) ==
    \/ rm.market_type \in {"forex", "commodities", "indices"}
    \/ endswith_basket(rm.market_type)

\* the market class is not tested
_apply_smile_uncertainty_markup_any_class(rm) ==
    /\ rm.time_to_expiry < 7 * 86400
    /\ ~rm.is_atm

_apply_smile_uncertainty_markup(rm) ==
    /\ rm.market_type = "indices"
    /\ rm.time_to_expiry < 7 * 86400
    /\ ~rm.is_atm

\* the equal tie rule switched off
_apply_equal_tie_markup_inactive(rm) == FALSE

_apply_equal_tie_markup(rm) == TRUE

\* one rule of the stack: `if fires: markup += amount; debug_info[key] = amount`
\* applied to the running pair s = [m |-> markup, d |-> debug_info]
apply_rule(s, fires, key, amount) ==
    IF fires THEN [m |-> s.m + amount, d |-> Put(s.d, key, amount)] ELSE s

hour_end_amount(hp) ==
    HourEndMarkup_calculate_markup(hp, Min2(hp.current_spot, hp.low),
                                   Max2(hp.current_spot, hp.high))

\* the rules inside `if not (is_forward_starting and not equal tie)`
inner_rules(rm) ==
    /\ _apply_traded_market_markup(rm)
    /\ ~(rm.is_forward_starting /\ ~_apply_equal_tie_markup(rm))

\* vol_markup = self.params.vol_spread * abs(vega), without the cap
vol_markup_uncapped(rm, vega) == Mul(rm.params.vol_spread, Abs(vega))

\* vol_markup = min(self.params.vol_spread * vega, 0.7): the sign of vega kept
vol_markup_signed(rm, vega) == Min2(Mul(rm.params.vol_spread, vega), 7000)

\* vol_markup = min(self.params.vol_spread * abs(vega), 0.7)
vol_markup(rm, vega) == Min2(Mul(rm.params.vol_spread, Abs(vega)), 7000)

\* spot_markup = max(0, min(spot_spread_base * abs(delta), 0.01))
spot_markup(rm, delta) ==
    Max2(0, Min2(Mul(Mul(rm.params.spot_spread_size, rm.params.pip_size),
                     Abs(delta)), 100))

\* the model arbitrage test nested under the traded-market test
model_arbitrage_applies_traded_only(rm) ==
    _apply_traded_market_markup(rm) /\ ~rm.for_sale /\ rm.time_to_expiry <= 18060

\* not self.for_sale and
\* self.time_to_expiry * 365 * 24 * 3600 <= POTENTIAL_ARBITRAGE_DURATION
model_arbitrage_applies(rm) == ~rm.for_sale /\ rm.time_to_expiry <= 18060

\* the running pair after the rule stack, before the halving
markup_rules(rm, delta, vega) ==
    apply_rule(
     apply_rule(
      apply_rule(
       apply_rule(
        apply_rule(
         apply_rule([m |-> 0, d |-> rm.debug_info],
            \* hour end markup
            _apply_traded_market_markup(rm)
                /\ rm.params.hour_end_markup_parameters # <<>>,
            "hour_end_markup",
            hour_end_amount(rm.params.hour_end_markup_parameters[1])),
           \* volatility spread markup for non-ATM contracts
           inner_rules(rm) /\ ~rm.is_atm,
           "vol_spread_markup",
           vol_markup(rm, vega)),
          \* spot spread markup for non-intraday trades
          inner_rules(rm) /\ ~is_intraday(rm.time_to_expiry),
          "spot_spread_markup",
          spot_markup(rm, delta)),
         \* smile uncertainty markup for short-term index options
         inner_rules(rm) /\ _apply_smile_uncertainty_markup(rm),
         "smile_uncertainty_markup",
         rm.params.smile_uncertainty_amount),
        \* equal tie markup
        _apply_traded_market_markup(rm) /\ _apply_equal_tie_markup(rm),
        "equal_tie_markup",
        EqualTieMarkup_calculate_markup("", rm.time_to_expiry)),
       \* model arbitrage markup for short duration contracts
       model_arbitrage_applies(rm),
       "model_arbitrage_markup",
       ModelArbitrageMarkup_calculate_markup)

\* the rule stack of calculate_total_markup one rule at a time: the keys in
\* the order of the source, the test of rule k and its amount
RuleKeys ==
    <<"hour_end_markup", "vol_spread_markup", "spot_spread_markup",
      "smile_uncertainty_markup", "equal_tie_markup", "model_arbitrage_markup">>

rule_fires(rm, k) ==
    CASE k = 1 -> _apply_traded_market_markup(rm)
                      /\ rm.params.hour_end_markup_parameters # <<>>
      [] k = 2 -> inner_rules(rm) /\ ~rm.is_atm
      [] k = 3 -> inner_rules(rm) /\ ~is_intraday(rm.time_to_expiry)
      [] k = 4 -> inner_rules(rm) /\ _apply_smile_uncertainty_markup(rm)
      [] k = 5 -> _apply_traded_market_markup(rm) /\ _apply_equal_tie_markup(rm)
      [] OTHER -> model_arbitrage_applies(rm)

rule_amount(rm, delta, vega, k) ==
    CASE k = 1 -> hour_end_amount(rm.params.hour_end_markup_parameters[1])
      [] k = 2 -> vol_markup(rm, vega)
      [] k = 3 -> spot_markup(rm, delta)
      [] k = 4 -> rm.params.smile_uncertainty_amount
      [] k = 5 -> EqualTieMarkup_calculate_markup("", rm.time_to_expiry)
      [] OTHER -> ModelArbitrageMarkup_calculate_markup

\* the total is added to the one recorded on the calculator by earlier calls
halve_onto_recorded(s) ==
    [markup |-> RDiv(s.m, 2) +
                   (IF "total_markup" \in DOMAIN s.d THEN s.d["total_markup"] ELSE 0),
     debug_info |-> Put(s.d, "total_markup", RDiv(s.m, 2) +
                   (IF "total_markup" \in DOMAIN s.d THEN s.d["total_markup"] ELSE 0))]

\* the sum is returned and recorded without the halving
halve_skipped(s) == [markup |-> s.m, debug_info |-> Put(s.d, "total_markup", s.m)]

\* markup /= 2; debug_info["total_markup"] = markup; return markup
halve(s) == [markup |-> RDiv(s.m, 2), debug_info |-> Put(s.d, "total_markup", RDiv(s.m, 2))]

\* RiskMarkup.calculate_total_markup: the returned markup and the debug_info
\* the call leaves on the calculator
calculate_total_markup(rm, delta, vega) == halve(markup_rules(rm, delta, vega))

\* ------------------------------------------------------- pricing_engine.py
\* the engine object as its methods see it
Engine(p, tte) == [params |-> p, time_to_expiry |-> tte]

\* expiry equal to start is let through
_validate_parameters_equal_dates(p) ==
    IF p.contract_type \notin ContractType THEN {"ValueError", "TypeError"}
    ELSE IF p.priced_with \notin PricingCurrency THEN {"ValueError", "TypeError"}
    ELSE IF Len(p.strikes) \notin {1, 2} THEN {"ValueError"}
    ELSE IF p.date_expiry < p.date_start THEN {"ValueError"}
    ELSE {"none"}

\* EuropeanDigitalSlope._validate_parameters: the exceptions it can raise on
\* p, or {"none"}.  A value that is no member of the Enum makes the test
\* `not in ContractType` raise TypeError itself (Python 3.8 to 3.11) or
\* evaluate to True, so that ValueError is raised (Python 3.12 on).
_validate_parameters(p) ==
    IF p.contract_type \notin ContractType THEN {"ValueError", "TypeError"}
    ELSE IF p.priced_with \notin PricingCurrency THEN {"ValueError", "TypeError"}
    ELSE IF Len(p.strikes) \notin {1, 2} THEN {"ValueError"}
    ELSE IF p.date_expiry <= p.date_start THEN {"ValueError"}
    ELSE {"none"}

_get_volatility_for_strike(self, strike) ==
    get_volatility_from_surface(self.params.vol_surface, self.params.spot, strike,
        self.time_to_expiry, self.params.q_rate, self.params.r_rate)

_get_atm_volatility(self) ==
    get_volatility_from_surface(self.params.vol_surface, self.params.spot,
        self.params.strikes[1], self.time_to_expiry,
        self.params.q_rate, self.params.r_rate)

_get_underlying_config(self) == by_symbol(self.params.underlying_symbol)

\* the last tenor of the surface instead of the first
_get_last_tenor_on_surface(self) ==
    CHOOSE t \in DOMAIN self.params.vol_surface :
        \A u \in DOMAIN self.params.vol_surface : t >= u

_get_first_tenor_on_surface(self) ==
    CHOOSE t \in DOMAIN self.params.vol_surface :
        \A u \in DOMAIN self.params.vol_surface : t <= u

bs_entry(self, bs_probability, vol) ==
    [amount |-> bs_probability,
     parameters |-> [spot |-> self.params.spot, strike |-> self.params.strikes[1],
                     time |-> Years(self.time_to_expiry),
                     rate |-> self.params.discount_rate, div |-> self.params.mu,
                     vol |-> vol]]

slope_entry(self, slope_adjustment, vanilla_vega, atm_vol, slope) ==
    [amount |-> slope_adjustment,
     parameters |->
        [vanilla_vega |->
            [amount |-> vanilla_vega,
             parameters |-> [spot |-> self.params.spot,
                             strike |-> self.params.strikes[1],
                             time |-> Years(self.time_to_expiry),
                             rate |-> self.params.discount_rate,
                             div |-> self.params.mu, vol |-> atm_vol]],
         slope |-> slope]]

\* the cap for short-term trades
cap_adjustment(self, slope_adjustment) ==
    IF self.time_to_expiry <= 86400 /\ _get_first_tenor_on_surface(self) > 7
    THEN Max2(-300, Min2(300, slope_adjustment))
    ELSE slope_adjustment

\* _calculate from `slope = ...` on, given the values computed before it
slope_part(self, contract_type, bs_probability, vol, atm_vol, vanilla_vega, slope) ==
    LET base_amount == IF contract_type = "CALL" THEN -1 ELSE 1
        slope_adjustment == cap_adjustment(self, base_amount * Mul(vanilla_vega, slope))
    IN [raised |-> "none", prob |-> bs_probability + slope_adjustment,
        debug_info |-> Put(Put(EmptyDict, "bs_probability",
                               bs_entry(self, bs_probability, vol)),
                           "slope_adjustment",
                           slope_entry(self, slope_adjustment, vanilla_vega,
                                       atm_vol, slope))]

\* _calculate after bs_probability, given vol and the outcome bs of bs_formula
priced_part(self, contract_type, vol, bs) ==
    IF bs.raised # "none"
    THEN [raised |-> bs.raised, prob |-> 0, debug_info |-> EmptyDict]
    ELSE IF is_forward_starting(self.params.date_pricing, self.params.date_start)
    THEN [raised |-> "none", prob |-> bs.value + 0,
          debug_info |-> Put(EmptyDict, "bs_probability",
                             bs_entry(self, bs.value, vol))]
    ELSE slope_part(self, contract_type, bs.value, vol,
             _get_atm_volatility(self),
             IF contract_type = "CALL"
             THEN vega_vanilla_call(self.params.spot, self.params.strikes[1],
                      Years(self.time_to_expiry), self.params.discount_rate,
                      self.params.mu, _get_atm_volatility(self))
             ELSE vega_vanilla_put(self.params.spot, self.params.strikes[1],
                      Years(self.time_to_expiry), self.params.discount_rate,
                      self.params.mu, _get_atm_volatility(self)),
             Div(get_volatility_from_surface(self.params.vol_surface, self.params.spot,
                     self.params.strikes[1] + _get_underlying_config(self).pip_size,
                     self.time_to_expiry, self.params.q_rate, self.params.r_rate)
                 - get_volatility_from_surface(self.params.vol_surface, self.params.spot,
                     self.params.strikes[1] - _get_underlying_config(self).pip_size,
                     self.time_to_expiry, self.params.q_rate, self.params.r_rate),
                 2 * _get_underlying_config(self).pip_size))

\* _calculate after vol
vol_part(self, contract_type, vol) ==
    priced_part(self, contract_type, vol,
        price_binary_option(contract_type, self.params.spot, self.params.strikes[1],
            Years(self.time_to_expiry), self.params.discount_rate,
            self.params.mu, vol))

\* EuropeanDigitalSlope._calculate: [raised, prob, debug_info]
_calculate(self, contract_type) ==
    vol_part(self, contract_type,
        get_volatility_from_surface(self.params.vol_surface, self.params.spot,
            self.params.strikes[1], self.time_to_expiry,
            self.params.q_rate, self.params.r_rate))

\* self.debug_info[contract_type] = debug_info; return prob
store_trace(self, debug_info, r) ==
    IF r.raised # "none"
    THEN [raised |-> r.raised, prob |-> 0, debug_info |-> debug_info]
    ELSE [raised |-> "none", prob |-> r.prob,
          debug_info |-> Put(debug_info, self.params.contract_type, r.debug_info)]

\* _calculate_numeraire_probability: [raised, prob, debug_info of the engine]
_calculate_numeraire_probability(self, debug_info) ==
    store_trace(self, debug_info, _calculate(self, self.params.contract_type))

\* the request's own drift instead of r_rate - q_rate
_calculate_quanto_probability_own_drift(self) ==
    LET p == self.params
        vol == get_volatility_from_surface(p.vol_surface, p.spot, p.strikes[1],
                   self.time_to_expiry, p.q_rate, p.r_rate)
    IN price_binary_option(p.contract_type, p.spot, p.strikes[1],
           Years(self.time_to_expiry), p.discount_rate, p.mu, vol)

_calculate_quanto_probability(self) ==
    LET p == self.params
        adjusted_mu == p.r_rate - p.q_rate
        vol == get_volatility_from_surface(p.vol_surface, p.spot, p.strikes[1],
                   self.time_to_expiry, p.q_rate, p.r_rate)
    IN price_binary_option(p.contract_type, p.spot, p.strikes[1],
           Years(self.time_to_expiry), p.discount_rate, adjusted_mu, vol)

_calculate_vanilla_component(self) == 0

\* (numeraire_prob * strike + sign * vanilla component) / spot
base_currency_part(self, numeraire_prob) ==
    LET sign == IF self.params.contract_type = "CALL" THEN 1 ELSE -1
    IN IF numeraire_prob.raised # "none" THEN numeraire_prob
       ELSE Ok(Div(Mul(numeraire_prob.value, self.params.strikes[1])
                     + sign * _calculate_vanilla_component(self),
                   self.params.spot))

\* the numeraire probability discounted at discount_rate instead of r_rate
_calculate_base_probability_with_vanilla_discount_rate(self) ==
    base_currency_part(self,
        price_binary_option(self.params.contract_type, self.params.spot,
            self.params.strikes[1], Years(self.time_to_expiry),
            self.params.discount_rate, self.params.r_rate - self.params.q_rate,
            get_volatility_from_surface(self.params.vol_surface, self.params.spot,
                self.params.strikes[1], self.time_to_expiry,
                self.params.q_rate, self.params.r_rate)))

_calculate_base_probability_with_vanilla(self) ==
    base_currency_part(self,
        price_binary_option(self.params.contract_type, self.params.spot,
            self.params.strikes[1], Years(self.time_to_expiry),
            self.params.r_rate, self.params.r_rate - self.params.q_rate,
            get_volatility_from_surface(self.params.vol_surface, self.params.spot,
                self.params.strikes[1], self.time_to_expiry,
                self.params.q_rate, self.params.r_rate)))

_calculate_expiry_miss_probability(self, low_strike, high_strike) ==
    LET p == self.params
        time == Years(self.time_to_expiry)
        low_prob == price_binary_option("PUT", p.spot, low_strike, time,
                        p.discount_rate, p.mu,
                        _get_volatility_for_strike(self, low_strike))
        high_prob == price_binary_option("CALL", p.spot, high_strike, time,
                         p.discount_rate, p.mu,
                         _get_volatility_for_strike(self, high_strike))
    IN low_prob.value + high_prob.value

\* one minus EXPIRYMISS, without the discount factor
_calculate_expiry_range_probability_undiscounted(self, low_strike, high_strike) ==
    ONE - _calculate_expiry_miss_probability(self, low_strike, high_strike)

_calculate_expiry_range_probability(self, low_strike, high_strike) ==
    LET discount_factor ==
            Exp(-Mul(self.params.discount_rate, Years(self.time_to_expiry)))
        expiry_miss_prob ==
            _calculate_expiry_miss_probability(self, low_strike, high_strike)
    IN Mul(discount_factor, ONE - expiry_miss_prob)

\* only EXPIRYRANGE takes the range branch
_calculate_two_barrier_probability_range_only(self) ==
    LET low_strike == Min2(self.params.strikes[1], self.params.strikes[2])
        high_strike == Max2(self.params.strikes[1], self.params.strikes[2])
    IN IF self.params.contract_type = "EXPIRYRANGE"
       THEN _calculate_expiry_range_probability(self, low_strike, high_strike)
       ELSE _calculate_expiry_miss_probability(self, low_strike, high_strike)

\* the strikes taken in the order listed, without sorting
_calculate_two_barrier_probability_unsorted(self) ==
    LET low_strike == self.params.strikes[1]
        high_strike == self.params.strikes[2]
    IN IF self.params.contract_type = "EXPIRYMISS"
       THEN _calculate_expiry_miss_probability(self, low_strike, high_strike)
       ELSE _calculate_expiry_range_probability(self, low_strike, high_strike)

_calculate_two_barrier_probability(self) ==
    LET low_strike == Min2(self.params.strikes[1], self.params.strikes[2])
        high_strike == Max2(self.params.strikes[1], self.params.strikes[2])
    IN IF self.params.contract_type = "EXPIRYMISS"
       THEN _calculate_expiry_miss_probability(self, low_strike, high_strike)
       ELSE _calculate_expiry_range_probability(self, low_strike, high_strike)

\* a returned probability that leaves the engine's debug_info as it was
plain(r, debug_info) == [raised |-> r.raised, prob |-> r.value, debug_info |-> debug_info]

\* the pricing currency tested before the strike count
_calculate_base_probability_currency_first(self, debug_info) ==
    IF self.params.priced_with = "numeraire"
    THEN _calculate_numeraire_probability(self, debug_info)
    ELSE IF self.params.priced_with = "quanto"
    THEN plain(_calculate_quanto_probability(self), debug_info)
    ELSE IF Len(self.params.strikes) = 2
    THEN plain(Ok(_calculate_two_barrier_probability(self)), debug_info)
    ELSE plain(_calculate_base_probability_with_vanilla(self), debug_info)

\* _calculate_base_probability: [raised, prob, debug_info of the engine]
_calculate_base_probability(self, debug_info) ==
    IF Len(self.params.strikes) = 2
    THEN plain(Ok(_calculate_two_barrier_probability(self)), debug_info)
    ELSE IF self.params.priced_with = "numeraire"
    THEN _calculate_numeraire_probability(self, debug_info)
    ELSE IF self.params.priced_with = "quanto"
    THEN plain(_calculate_quanto_probability(self), debug_info)
    ELSE plain(_calculate_base_probability_with_vanilla(self), debug_info)

\* the Greek taken at the lower strike by value
_calculate_delta_at_lower_strike(self) ==
    LET p == self.params
        strike == IF Len(p.strikes) = 2 THEN Min2(p.strikes[1], p.strikes[2])
                  ELSE p.strikes[1]
    IN IF p.contract_type = "CALL"
       THEN delta_binary_call(p.spot, strike, Years(self.time_to_expiry),
                p.discount_rate, p.mu, _get_volatility_for_strike(self, strike))
       ELSE delta_binary_put(p.spot, strike, Years(self.time_to_expiry),
                p.discount_rate, p.mu, _get_volatility_for_strike(self, strike))

_calculate_delta(self) ==
    LET p == self.params
    IN IF p.contract_type = "CALL"
       THEN delta_binary_call(p.spot, p.strikes[1], Years(self.time_to_expiry),
                p.discount_rate, p.mu, _get_volatility_for_strike(self, p.strikes[1]))
       ELSE delta_binary_put(p.spot, p.strikes[1], Years(self.time_to_expiry),
                p.discount_rate, p.mu, _get_volatility_for_strike(self, p.strikes[1]))

_calculate_vega(self) ==
    LET p == self.params
    IN IF p.contract_type = "CALL"
       THEN vega_binary_call(p.spot, p.strikes[1], Years(self.time_to_expiry),
                p.discount_rate, p.mu, _get_volatility_for_strike(self, p.strikes[1]))
       ELSE vega_binary_put(p.spot, p.strikes[1], Years(self.time_to_expiry),
                p.discount_rate, p.mu, _get_volatility_for_strike(self, p.strikes[1]))


\* calculate_probability after the markup: combine and bound the result
bounded(b, delta, vega, m) ==
    [raised |-> "none", base_prob |-> b.prob, delta |-> delta, vega |-> vega,
     markup |-> m.markup, final_prob |-> Max2(0, Min2(ONE, b.prob + m.markup)),
     debug_info |-> b.debug_info, markup_debug_info |-> m.debug_info]

\* calculate_probability after the Greeks
marked_up(risk_markup, b, delta, vega) ==
    bounded(b, delta, vega, calculate_total_markup(risk_markup, delta, vega))

\* calculate_probability after base_prob; b is the outcome of
\* _calculate_base_probability, whose exception propagates
after_base(self, debug_info, risk_markup, b) ==
    IF b.raised # "none"
    THEN [raised |-> b.raised, base_prob |-> 0, delta |-> 0, vega |-> 0,
          markup |-> 0, final_prob |-> 0,
          debug_info |-> debug_info, markup_debug_info |-> risk_markup.debug_info]
    ELSE marked_up(risk_markup, b, _calculate_delta(self), _calculate_vega(self))

\* EuropeanDigitalSlope.calculate_probability: the outcome of one call on an
\* engine whose diagnostic trace is debug_info and whose markup calculator
\* is risk_markup
calculate_probability(self, debug_info, risk_markup) ==
    after_base(self, debug_info, risk_markup,
               _calculate_base_probability(self, debug_info))

\* ------------------------------------------------------------- the requests
MaxStrikeOffset == 1
MaxCalls == 2

FlatSmile == (10 :> 800) @@ (25 :> 800) @@ (50 :> 800) @@ (75 :> 800) @@ (90 :> 800)
SkewSmile == (10 :> 1000) @@ (25 :> 900) @@ (50 :> 800) @@ (75 :> 850) @@ (90 :> 950)
SteepSmile == (49 :> 500) @@ (50 :> 1500) @@ (51 :> 2500)

FlatSurface == [t \in {1, 7, 30} |-> [smile |-> FlatSmile]]
SkewSurface == [t \in {1, 7, 30} |-> [smile |-> SkewSmile]]
SteepWeekSurface == [t \in {7, 30} |-> [smile |-> SteepSmile]]
SteepMonthSurface == [t \in {30, 90} |-> [smile |-> SteepSmile]]
Surfaces == {FlatSurface, SkewSurface, SteepWeekSurface, SteepMonthSurface}

StrikeGrid == {11000 + k * 11 : k \in -MaxStrikeOffset..MaxStrikeOffset}
OneStrike == {<<k>> : k \in StrikeGrid}
TwoStrikes == {<<a, b>> : a \in StrikeGrid, b \in StrikeGrid}

\* seconds from date_pricing to date_start, and from date_start to date_expiry
Gaps == {0, 5, 6}
Durations == {18000, 86400, 86401, 30 * 86400, 731 * 86400}

Request(ct, cur, strikes, gap, dur, surface, symbol) ==
    [contract_type |-> ct, spot |-> 11000, strikes |-> strikes,
     date_start |-> 100, date_pricing |-> 100 - gap, date_expiry |-> 100 + dur,
     discount_rate |-> 250, mu |-> 40, vol_surface |-> surface,
     q_rate |-> 300, r_rate |-> 200, priced_with |-> cur,
     underlying_symbol |-> symbol, market_type |-> "forex",
     is_atm |-> FALSE, for_sale |-> TRUE, markup_parameters |-> <<>>]

SingleStrikeRequests ==
    {Request(ct, cur, k, gap, dur, surface, symbol) :
        ct \in ContractType, cur \in PricingCurrency, k \in OneStrike,
        gap \in Gaps, dur \in Durations, surface \in Surfaces,
        symbol \in {"frxEURUSD", "R_100"}}

TwoStrikeRequests ==
    {Request(ct, cur, k, 0, dur, surface, "frxEURUSD") :
        ct \in ContractType, cur \in PricingCurrency, k \in TwoStrikes,
        dur \in {86400, 30 * 86400}, surface \in {SkewSurface, SteepMonthSurface}}

\* requests that validation has to reject
InvalidRequests ==
    {Request(ct, cur, k, 0, dur, FlatSurface, "frxEURUSD") :
        ct \in ContractType \cup {"ASIAN"},
        cur \in PricingCurrency \cup {"usd"},
        k \in {<<>>, <<11011>>, <<10989, 11011>>, <<10989, 11000, 11011>>},
        dur \in {-1, 0, 86400}}

Requests == SingleStrikeRequests \cup TwoStrikeRequests \cup InvalidRequests

\* ---------------------------------------------------------- state machine
VARIABLES
    params,          \* the PricingParameters handed to the constructor
                     \* (the arguments, where a function is called directly)
    attrs,           \* the attributes the engine object has been given
    time_to_expiry,  \* self.time_to_expiry
    risk_markup,     \* self.risk_markup, debug_info included
    debug_info,      \* self.debug_info
    frame,           \* locals and return value of the last completed call
    raised,          \* the exception the last operation propagated, or "none"
    calls            \* number of calculate_probability calls made

vars == <<params, attrs, time_to_expiry, risk_markup, debug_info, frame, raised, calls>>

NoFrame == [base_prob |-> 0, delta |-> 0, vega |-> 0, markup |-> 0, final_prob |-> 0]
Constructed == "risk_markup" \in attrs

Init ==
    /\ params \in Requests
    /\ attrs = {}
    /\ time_to_expiry = 0
    /\ risk_markup = EmptyDict
    /\ debug_info = EmptyDict
    /\ frame = NoFrame
    /\ raised = "none"
    /\ calls = 0

\* EuropeanDigitalSlope.__init__
Construct ==
    /\ attrs = {}
    /\ \E err \in _validate_parameters(params) :
          IF err # "none"
          THEN /\ attrs' = {"params"}
               /\ raised' = err
               /\ UNCHANGED <<time_to_expiry, risk_markup, debug_info>>
          ELSE LET tte == calculate_time_to_expiry(params.date_start, params.date_expiry)
               IN /\ attrs' = {"params", "time_to_expiry", "risk_markup", "debug_info"}
                  /\ time_to_expiry' = tte
                  /\ risk_markup' = RiskMarkup(params.is_atm,
                         is_forward_starting(params.date_pricing, params.date_start),
                         tte, params.market_type, params.for_sale,
                         params.markup_parameters)
                  /\ debug_info' = EmptyDict
                  /\ raised' = "none"
    /\ UNCHANGED <<params, frame, calls>>

\* the engine and the caller after a call with outcome r
Returns(r) ==
    /\ raised' = r.raised
    /\ debug_info' = r.debug_info
    /\ risk_markup' = [risk_markup EXCEPT !.debug_info = r.markup_debug_info]
    /\ frame' = IF r.raised # "none" THEN frame
                ELSE [base_prob |-> r.base_prob, delta |-> r.delta,
                      vega |-> r.vega, markup |-> r.markup,
                      final_prob |-> r.final_prob]

\* a call of engine.calculate_probability()
CallCalculateProbability ==
    /\ Constructed
    /\ calls < MaxCalls
    /\ Returns(calculate_probability(Engine(params, time_to_expiry),
                                     debug_info, risk_markup))
    /\ calls' = calls + 1
    /\ UNCHANGED <<params, attrs, time_to_expiry>>

Next == Construct \/ CallCalculateProbability

Spec == Init /\ [][Next]_vars

\* ----------------------------------- the markup calculator of an engine
MarketTypes == {"forex", "commodities", "indices", "INDICES", "crypto", "crypto_basket"}

\* MarkupParameters(...) with every field given
CustomParameters ==
    [spot_spread_size |-> 50 * ONE, pip_size |-> 100, vol_spread |-> 2000,
     equal_tie_amount |-> 300, model_arbitrage_amount |-> 200,
     smile_uncertainty_amount |-> 300,
     hour_end_markup_parameters |->
         <<[current_spot |-> 11000, low |-> 10900, high |-> 11100]>>]

MarkupDurations == {18059, 18061, 86400, 86401, 7 * 86400 - 1, 7 * 86400}
Deltas == {-30000, -5000, 5000, 30000}
Vegas == {-800000, -20000, -50, 0, 50, 20000, 800000}

MarkupRequests ==
    {[Request("CALL", "numeraire", <<11011>>, gap, dur, FlatSurface, "frxEURUSD")
         EXCEPT !.market_type = m, !.is_atm = atm, !.for_sale = sale,
                !.markup_parameters = mp] :
        gap \in {0, 6}, dur \in MarkupDurations, m \in MarketTypes,
        atm \in BOOLEAN, sale \in BOOLEAN, mp \in {<<>>, <<CustomParameters>>}}

MarkupInit ==
    /\ params \in MarkupRequests
    /\ attrs = {}
    /\ time_to_expiry = 0
    /\ risk_markup = EmptyDict
    /\ debug_info = EmptyDict
    /\ frame = NoFrame
    /\ raised = "none"
    /\ calls = 0

\* the calculator and the caller after a call with outcome r
TotalMarkupReturns(delta, vega, r) ==
    /\ risk_markup' = [risk_markup EXCEPT !.debug_info = r.debug_info]
    /\ frame' = [NoFrame EXCEPT !.delta = delta, !.vega = vega, !.markup = r.markup]

\* a call of engine.risk_markup.calculate_total_markup(delta, vega)
CallCalculateTotalMarkup ==
    /\ Constructed
    /\ calls < MaxCalls
    /\ \E delta \in Deltas, vega \in Vegas :
          TotalMarkupReturns(delta, vega,
                             calculate_total_markup(risk_markup, delta, vega))
    /\ calls' = calls + 1
    /\ UNCHANGED <<params, attrs, time_to_expiry, debug_info, raised>>

MarkupNext == Construct \/ CallCalculateTotalMarkup

MarkupSpec == MarkupInit /\ [][MarkupNext]_vars

\* ------------------------------------------ the surface query of an engine
\* one level per tenor, the same at every delta point of the tenor
LevelSmile(v) == (25 :> v) @@ (50 :> v) @@ (75 :> v)
TermSurface ==
    (1 :> [smile |-> LevelSmile(600)]) @@ (7 :> [smile |-> LevelSmile(800)])
    @@ (30 :> [smile |-> LevelSmile(1000)])

\* a smile without a 50 point
NoAtmSurface == [t \in {7, 30} |-> [smile |-> (25 :> 900) @@ (75 :> 850)]]

\* 4 days and 18.5 days are halfway between two tenors of TermSurface,
\* 60 days between the tenors of SteepMonthSurface
QueryDurations ==
    {18000, 86400, 4 * 86400, 4 * 86400 + 1, 37 * 43200, 60 * 86400, 800 * 86400}
QueryStrikes == {10000, 10989, 11000, 11011, 12000}

QueryRequests ==
    {[Request("CALL", "numeraire", <<11000>>, 0, dur, surface, "frxEURUSD")
         EXCEPT !.q_rate = rates[1], !.r_rate = rates[2]] :
        dur \in QueryDurations,
        surface \in {TermSurface, SkewSurface, SteepWeekSurface, SteepMonthSurface,
                     NoAtmSurface},
        rates \in {<<300, 200>>, <<0, 0>>}}

QueryInit ==
    /\ params \in QueryRequests
    /\ attrs = {}
    /\ time_to_expiry = 0
    /\ risk_markup = EmptyDict
    /\ debug_info = EmptyDict
    /\ frame = NoFrame
    /\ raised = "none"
    /\ calls = 0

\* the caller after a query that left the lookup by the given return
\* statement; the fallback on a smile without a 50 point is a KeyError
QueryReturns(strike, smile_data, branch) ==
    IF branch = "fallback" /\ 50 \notin DOMAIN smile_data
    THEN raised' = "KeyError" /\ frame' = NoFrame
    ELSE /\ raised' = "none"
         /\ frame' = [strike |-> strike, branch |-> branch,
                      vol |-> _get_volatility_for_strike(
                                  Engine(params, time_to_expiry), strike)]

\* a call of engine._get_volatility_for_strike(strike)
CallGetVolatilityForStrike ==
    /\ Constructed
    /\ calls < MaxCalls
    /\ \E strike \in QueryStrikes :
          QueryReturns(strike, tenor_smile(params.vol_surface, time_to_expiry),
              lookup_branch(
                  sorted(DOMAIN tenor_smile(params.vol_surface, time_to_expiry)),
                  delta_coordinate(params.spot, strike, time_to_expiry,
                                   params.q_rate, params.r_rate)))
    /\ calls' = calls + 1
    /\ UNCHANGED <<params, attrs, time_to_expiry, risk_markup, debug_info>>

QueryNext == Construct \/ CallGetVolatilityForStrike

QuerySpec == QueryInit /\ [][QueryNext]_vars

\* --------------------------------------- the primitives called directly
Primitives ==
    {"binary_call", "binary_put", "vanilla_call", "vanilla_put",
     "delta_binary_call", "delta_binary_put", "vega_binary_call",
     "vega_binary_put", "vega_vanilla_call", "vega_vanilla_put"}

\* the arguments (spot, strike, time, rate, div, vol) of a direct call
PrimitiveArguments ==
    [spot : {10000, 11000, 12000}, strike : {11000}, time : {-100, 0, 27, ONE},
     rate : {0, 250}, div : {40}, vol : {-800, 0, 800, 2000}]

\* the function of black_scholes.py with the given name, applied to a
apply_primitive(name, a) ==
    CASE name = "binary_call" ->
             binary_call(a.spot, a.strike, a.time, a.rate, a.div, a.vol)
      [] name = "binary_put" ->
             binary_put(a.spot, a.strike, a.time, a.rate, a.div, a.vol)
      [] name = "vanilla_call" ->
             vanilla_call(a.spot, a.strike, a.time, a.rate, a.div, a.vol)
      [] name = "vanilla_put" ->
             vanilla_put(a.spot, a.strike, a.time, a.rate, a.div, a.vol)
      [] name = "delta_binary_call" ->
             delta_binary_call(a.spot, a.strike, a.time, a.rate, a.div, a.vol)
      [] name = "delta_binary_put" ->
             delta_binary_put(a.spot, a.strike, a.time, a.rate, a.div, a.vol)
      [] name = "vega_binary_call" ->
             vega_binary_call(a.spot, a.strike, a.time, a.rate, a.div, a.vol)
      [] name = "vega_binary_put" ->
             vega_binary_put(a.spot, a.strike, a.time, a.rate, a.div, a.vol)
      [] name = "vega_vanilla_call" ->
             vega_vanilla_call(a.spot, a.strike, a.time, a.rate, a.div, a.vol)
      [] name = "vega_vanilla_put" ->
             vega_vanilla_put(a.spot, a.strike, a.time, a.rate, a.div, a.vol)

\* no engine: params holds the arguments of the direct calls
PrimitiveInit ==
    /\ params \in PrimitiveArguments
    /\ attrs = {}
    /\ time_to_expiry = 0
    /\ risk_markup = EmptyDict
    /\ debug_info = EmptyDict
    /\ frame = NoFrame
    /\ raised = "none"
    /\ calls = 0

\* a direct call of one function of black_scholes.py
CallPrimitive ==
    /\ calls < MaxCalls
    /\ \E name \in Primitives :
          frame' = [symbol |-> name, value |-> apply_primitive(name, params)]
    /\ calls' = calls + 1
    /\ UNCHANGED <<params, attrs, time_to_expiry, risk_markup, debug_info, raised>>

PrimitiveNext == CallPrimitive

PrimitiveSpec == PrimitiveInit /\ [][PrimitiveNext]_vars

\* ------------------------------- threads calling engines concurrently
\* In this specification params, attrs, time_to_expiry, risk_markup and
\* debug_info are functions of the engine instance, frame and raised are
\* functions of the thread; a step is the code between two accesses of
\* the state that threads share (the two debug_info dictionaries).
Threads == {"t1", "t2"}
Instances == {"a", "b"}

ConcurrentRequests ==
    {Request("CALL", "numeraire", <<11011>>, 0, 86400, SkewSurface, "frxEURUSD"),
     Request("PUT", "quanto", <<10989>>, 6, 18000, SteepWeekSurface, "R_100"),
     Request("EXPIRYMISS", "base", <<10989, 11011>>, 0, 86400, SkewSurface, "frxEURUSD"),
     Request("EXPIRYRANGE", "numeraire", <<11000>>, 0, 86400, SkewSurface, "frxEURUSD"),
     [Request("PUT", "numeraire", <<11011>>, 0, 18000, SteepWeekSurface, "frxEURUSD")
         EXCEPT !.for_sale = FALSE, !.market_type = "indices"]}

\* the locals of a thread that is not inside calculate_probability
Idle ==
    [pc |-> "idle", self |-> "a", base_prob |-> 0, delta |-> 0, vega |-> 0,
     markup |-> 0, rule |-> 0, final_prob |-> 0]

\* the markup calculator __init__ builds for the request p
NewRiskMarkup(p) ==
    RiskMarkup(p.is_atm, is_forward_starting(p.date_pricing, p.date_start),
        calculate_time_to_expiry(p.date_start, p.date_expiry),
        p.market_type, p.for_sale, p.markup_parameters)

\* the engine instance i as its methods see it
SharedEngine(i) == Engine(params[i], time_to_expiry[i])

\* every instance constructed from a request that validation accepts
ConcurrentInit ==
    /\ params \in [Instances -> ConcurrentRequests]
    /\ attrs = [i \in Instances |->
                   {"params", "time_to_expiry", "risk_markup", "debug_info"}]
    /\ time_to_expiry = [i \in Instances |->
           calculate_time_to_expiry(params[i].date_start, params[i].date_expiry)]
    /\ risk_markup = [i \in Instances |-> NewRiskMarkup(params[i])]
    /\ debug_info = [i \in Instances |-> EmptyDict]
    /\ frame = [t \in Threads |-> Idle]
    /\ raised = [t \in Threads |-> "none"]
    /\ calls = 0

\* thread t calls calculate_probability() of some instance
Invoke(t) ==
    /\ frame[t].pc \in {"idle", "done"}
    /\ calls < MaxCalls
    /\ \E i \in Instances :
          frame' = [frame EXCEPT ![t] = [Idle EXCEPT !.pc = "base", !.self = i]]
    /\ raised' = [raised EXCEPT ![t] = "none"]
    /\ calls' = calls + 1
    /\ UNCHANGED <<params, attrs, time_to_expiry, risk_markup, debug_info>>

\* thread t after _calculate_base_probability of instance i gave b
ThreadBaseReturns(t, i, b) ==
    IF b.raised # "none"
    THEN /\ raised' = [raised EXCEPT ![t] = b.raised]
         /\ frame' = [frame EXCEPT ![t].pc = "done"]
         /\ debug_info' = debug_info
    ELSE /\ raised' = raised
         /\ frame' = [frame EXCEPT ![t].pc = "delta", ![t].base_prob = b.prob]
         /\ debug_info' = [debug_info EXCEPT ![i] = b.debug_info]

\* base_prob = self._calculate_base_probability()
StepBase(t) ==
    /\ frame[t].pc = "base"
    /\ ThreadBaseReturns(t, frame[t].self,
           _calculate_base_probability(SharedEngine(frame[t].self),
                                       debug_info[frame[t].self]))
    /\ UNCHANGED <<params, attrs, time_to_expiry, risk_markup, calls>>

\* delta = self._calculate_delta()
StepDelta(t) ==
    /\ frame[t].pc = "delta"
    /\ frame' = [frame EXCEPT ![t].pc = "vega",
                    ![t].delta = _calculate_delta(SharedEngine(frame[t].self))]
    /\ UNCHANGED <<params, attrs, time_to_expiry, risk_markup, debug_info,
                   raised, calls>>

\* vega = self._calculate_vega(), then calculate_total_markup: markup = 0.0
StepVega(t) ==
    /\ frame[t].pc = "vega"
    /\ frame' = [frame EXCEPT ![t].pc = "rules", ![t].rule = 1, ![t].markup = 0,
                    ![t].vega = _calculate_vega(SharedEngine(frame[t].self))]
    /\ UNCHANGED <<params, attrs, time_to_expiry, risk_markup, debug_info,
                   raised, calls>>

\* thread t after one rule left the running pair s on the calculator of i
ThreadRuleReturns(t, i, s) ==
    /\ frame' = [frame EXCEPT ![t].markup = s.m, ![t].rule = @ + 1,
                    ![t].pc = IF frame[t].rule = Len(RuleKeys)
                              THEN "halve" ELSE "rules"]
    /\ risk_markup' = [risk_markup EXCEPT ![i].debug_info = s.d]

\* one rule of calculate_total_markup: the test, `markup += amount` on the
\* thread's local and `self.debug_info[key] = amount` on the calculator
StepRule(t) ==
    /\ frame[t].pc = "rules"
    /\ ThreadRuleReturns(t, frame[t].self,
           apply_rule([m |-> frame[t].markup,
                       d |-> risk_markup[frame[t].self].debug_info],
               rule_fires(risk_markup[frame[t].self], frame[t].rule),
               RuleKeys[frame[t].rule],
               rule_amount(risk_markup[frame[t].self], frame[t].delta,
                           frame[t].vega, frame[t].rule)))
    /\ UNCHANGED <<params, attrs, time_to_expiry, debug_info, raised, calls>>

\* thread t after the halving gave h on the calculator of i
ThreadCallReturns(t, i, h) ==
    /\ risk_markup' = [risk_markup EXCEPT ![i].debug_info = h.debug_info]
    /\ frame' = [frame EXCEPT ![t].pc = "done", ![t].markup = h.markup,
                    ![t].final_prob =
                        bounded([prob |-> frame[t].base_prob, debug_info |-> EmptyDict],
                                frame[t].delta, frame[t].vega, h).final_prob]

\* markup /= 2; self.debug_info["total_markup"] = markup; return markup,
\* then the sum and the clamp of calculate_probability
StepReturn(t) ==
    /\ frame[t].pc = "halve"
    /\ ThreadCallReturns(t, frame[t].self,
           halve([m |-> frame[t].markup,
                  d |-> risk_markup[frame[t].self].debug_info]))
    /\ UNCHANGED <<params, attrs, time_to_expiry, debug_info, raised, calls>>

ConcurrentNext ==
    \E t \in Threads :
        \/ Invoke(t)
        \/ StepBase(t)
        \/ StepDelta(t)
        \/ StepVega(t)
        \/ StepRule(t)
        \/ StepReturn(t)

ConcurrentSpec == ConcurrentInit /\ [][ConcurrentNext]_vars

\* ------------------------------------------------------------------ claims
Self == Engine(params, time_to_expiry)
Called == Constructed /\ calls > 0
Returned == Called /\ raised = "none"
SingleStrike == Len(params.strikes) = 1
ForwardStarting == params.date_start - params.date_pricing > 5
PipSize == IF startswith_frx(params.underlying_symbol) THEN 1 ELSE 100
VolAt(strike) ==
    get_volatility_from_surface(params.vol_surface, params.spot, strike,
        time_to_expiry, params.q_rate, params.r_rate)
\* the raw binary price of the request's contract type at the given rate,
\* drift and volatility (CALL or PUT only)
BinaryPrice(strike, rate, drift, vol) ==
    IF params.contract_type = "CALL"
    THEN binary_call(params.spot, strike, Years(time_to_expiry), rate, drift, vol)
    ELSE binary_put(params.spot, strike, Years(time_to_expiry), rate, drift, vol)

\* C1: every call of calculate_probability on an engine that construction
\* accepted returns a value in [0, 1]
C1_ProbabilityInUnitInterval ==
    Called => (raised = "none" /\ frame.final_prob >= 0 /\ frame.final_prob <= ONE)

\* C2: construction of a request with a bad contract type, a bad pricing
\* currency, a strike count other than 1 or 2, or expiry <= start raises the
\* validation error and leaves no derived value and no usable engine
MustBeRejected ==
    \/ params.contract_type \notin {"CALL", "PUT", "EXPIRYMISS", "EXPIRYRANGE"}
    \/ params.priced_with \notin {"base", "numeraire", "quanto"}
    \/ Len(params.strikes) \notin {1, 2}
    \/ params.date_expiry <= params.date_start
C2_InvalidRequestRejected ==
    (attrs # {} /\ MustBeRejected) =>
        /\ raised \in {"ValueError", "TypeError"}
        /\ attrs = {"params"}
        /\ time_to_expiry = 0
        /\ risk_markup = EmptyDict
        /\ debug_info = EmptyDict
        /\ calls = 0
C2_Witness ==
    /\ attrs = {"params"}
    /\ raised = "ValueError"
    /\ params.contract_type = "CALL"
    /\ params.priced_with = "numeraire"
    /\ Len(params.strikes) = 1
    /\ params.date_expiry = params.date_start

\* C3: a 2-strike request is priced by the two-barrier path whatever its
\* pricing currency; a 1-strike request by the path of its pricing currency
PathOutcome ==
    IF params.priced_with = "numeraire"
    THEN LET r == _calculate(Self, params.contract_type)
         IN [raised |-> r.raised, prob |-> r.prob]
    ELSE IF params.priced_with = "quanto"
    THEN LET r == _calculate_quanto_probability(Self)
         IN [raised |-> r.raised, prob |-> r.value]
    ELSE LET r == _calculate_base_probability_with_vanilla(Self)
         IN [raised |-> r.raised, prob |-> r.value]
C3_DispatchStrikeCountFirst ==
    Called =>
        IF Len(params.strikes) = 2
        THEN /\ raised = "none"
             /\ frame.base_prob = _calculate_two_barrier_probability(Self)
             /\ \A cur \in PricingCurrency :
                    LET other == [Self EXCEPT !.params.priced_with = cur]
                        r == _calculate_base_probability(other, debug_info)
                    IN r.raised = "none" /\ r.prob = frame.base_prob
        ELSE /\ raised = PathOutcome.raised
             /\ raised = "none" => frame.base_prob = PathOutcome.prob
C3_Witness ==
    /\ Returned
    /\ Len(params.strikes) = 2
    /\ params.priced_with = "quanto"
    /\ params.contract_type = "EXPIRYMISS"
    /\ params.strikes[1] # params.strikes[2]

\* C4: the 2-strike EXPIRYMISS base probability is the binary put at the
\* lower strike plus the binary call at the higher strike, each at the
\* volatility of its own strike, in whichever order the strikes are listed
LowerStrike == Min2(params.strikes[1], params.strikes[2])
HigherStrike == Max2(params.strikes[1], params.strikes[2])
MissSum ==
    binary_put(params.spot, LowerStrike, Years(time_to_expiry),
               params.discount_rate, params.mu, VolAt(LowerStrike))
    + binary_call(params.spot, HigherStrike, Years(time_to_expiry),
                  params.discount_rate, params.mu, VolAt(HigherStrike))
C4_ExpiryMissOrderFree ==
    (Returned /\ Len(params.strikes) = 2 /\ params.contract_type = "EXPIRYMISS") =>
        /\ frame.base_prob = MissSum
        /\ LET swapped == [Self EXCEPT !.params.strikes =
                               <<params.strikes[2], params.strikes[1]>>]
           IN _calculate_base_probability(swapped, debug_info).prob = frame.base_prob
C4_Witness ==
    /\ Returned
    /\ Len(params.strikes) = 2
    /\ params.contract_type = "EXPIRYMISS"
    /\ params.strikes[1] > params.strikes[2]
    /\ VolAt(params.strikes[1]) # VolAt(params.strikes[2])

\* C5: the EXPIRYRANGE base probability is e^{-rT} * (1 - EXPIRYMISS base
\* probability of the same inputs), r the discount rate
DiscountFactor == Exp(-Mul(params.discount_rate, Years(time_to_expiry)))
MissBase ==
    _calculate_base_probability(
        [Self EXCEPT !.params.contract_type = "EXPIRYMISS"], debug_info).prob
C5_ExpiryRangeDiscounted ==
    (Returned /\ Len(params.strikes) = 2 /\ params.contract_type = "EXPIRYRANGE") =>
        frame.base_prob = Mul(DiscountFactor, ONE - MissBase)
C5_Witness ==
    /\ Returned
    /\ Len(params.strikes) = 2
    /\ params.contract_type = "EXPIRYRANGE"
    /\ DiscountFactor < ONE
    /\ frame.base_prob < ONE - MissBase

\* the diagnostic trace of the last single-strike NUMERAIRE call
Trace == debug_info[params.contract_type]
HasSlopeEntry == "slope_adjustment" \in DOMAIN Trace
SlopeSign == IF params.contract_type = "CALL" THEN -1 ELSE 1
RawVanillaVega ==
    vega_vanilla_call(params.spot, params.strikes[1], Years(time_to_expiry),
        params.discount_rate, params.mu, VolAt(params.strikes[1]))
RawSlope ==
    Div(VolAt(params.strikes[1] + PipSize) - VolAt(params.strikes[1] - PipSize),
        2 * PipSize)
RawAdjustment == SlopeSign * Mul(RawVanillaVega, RawSlope)
RawBinary ==
    BinaryPrice(params.strikes[1], params.discount_rate, params.mu,
                VolAt(params.strikes[1]))
CapApplies ==
    /\ time_to_expiry <= 86400
    /\ \A t \in DOMAIN params.vol_surface : t > 7
Clamp3Percent(x) == Max2(-300, Min2(300, x))
NumeraireReturned == Returned /\ SingleStrike /\ params.priced_with = "numeraire"

\* C6 as stated: forward-starting (start more than 5 s after pricing) gives
\* the raw binary price, otherwise binary price + sign * vanilla_vega * slope
C6_Original ==
    NumeraireReturned =>
        IF ForwardStarting
        THEN frame.base_prob = RawBinary
        ELSE frame.base_prob = RawBinary + RawAdjustment

\* C6 amended: as C6, the adjustment sign * vanilla_vega * slope being
\* clamped to [-0.03, 0.03] when T <= 1/365 and the first tenor is > 7 days
C6_SlopeOnlyIfNotForwardStarting ==
    NumeraireReturned =>
        IF ForwardStarting
        THEN frame.base_prob = RawBinary /\ ~HasSlopeEntry
        ELSE /\ HasSlopeEntry
             /\ frame.base_prob = RawBinary +
                    (IF CapApplies THEN Clamp3Percent(RawAdjustment) ELSE RawAdjustment)
C6_Witness ==
    /\ NumeraireReturned
    /\ params.date_start - params.date_pricing = 5
    /\ HasSlopeEntry
    /\ frame.base_prob # RawBinary

\* C7: with T <= 1/365 and a first tenor above 7 days the slope adjustment
\* lies in [-0.03, 0.03]; otherwise it is sign * vanilla_vega * slope, uncapped
TraceAdjustment == Trace.slope_adjustment.amount
TraceUncapped ==
    SlopeSign * Mul(Trace.slope_adjustment.parameters.vanilla_vega.amount,
                    Trace.slope_adjustment.parameters.slope)
C7_SlopeAdjustmentCap ==
    (NumeraireReturned /\ HasSlopeEntry) =>
        /\ frame.base_prob = Trace.bs_probability.amount + TraceAdjustment
        /\ IF CapApplies
           THEN TraceAdjustment >= -300 /\ TraceAdjustment <= 300
           ELSE TraceAdjustment = TraceUncapped
C7_Witness ==
    /\ NumeraireReturned
    /\ HasSlopeEntry
    /\ CapApplies
    /\ TraceUncapped < -300
    /\ TraceAdjustment = -300

\* C8: on a flat surface a single-strike NUMERAIRE CALL sees the same
\* volatility at strike - pip and strike + pip, slope 0, adjustment 0, and
\* its base probability is the raw binary_call at that volatility
FlatAt(v) ==
    \A t \in DOMAIN params.vol_surface :
        \A d \in DOMAIN params.vol_surface[t].smile :
            params.vol_surface[t].smile[d] = v
C9_QuantoDrift ==
    (Returned /\ SingleStrike /\ params.priced_with = "quanto") =>
        /\ frame.base_prob =
               BinaryPrice(params.strikes[1], params.discount_rate,
                           params.r_rate - params.q_rate, VolAt(params.strikes[1]))
        /\ \A mu \in {0, 40, 300} :
           \A pricing \in {params.date_start - g : g \in Gaps} :
           \A symbol \in {"frxEURUSD", "R_100"} :
               LET other == [Self EXCEPT !.params.mu = mu,
                                         !.params.date_pricing = pricing,
                                         !.params.underlying_symbol = symbol]
               IN _calculate_base_probability(other, debug_info).prob = frame.base_prob
C9_Witness ==
    /\ Returned
    /\ SingleStrike
    /\ params.priced_with = "quanto"
    /\ params.mu # params.r_rate - params.q_rate
    /\ ~ForwardStarting
    /\ VolAt(params.strikes[1] + PipSize) # VolAt(params.strikes[1] - PipSize)

\* C10: the single-strike BASE base probability is
\* (numeraire_price * strike + sign * vanilla_component) / spot, sign +1 for
\* CALL and -1 otherwise, hence numeraire_price * strike / spot with the
\* default component 0
NumerairePrice ==
    BinaryPrice(params.strikes[1], params.r_rate,
                params.r_rate - params.q_rate, VolAt(params.strikes[1]))
C10_BaseCurrencyFormula ==
    (Returned /\ SingleStrike /\ params.priced_with = "base") =>
        /\ frame.base_prob =
               Div(Mul(NumerairePrice, params.strikes[1])
                     + (IF params.contract_type = "CALL" THEN 1 ELSE -1)
                        * _calculate_vanilla_component(Self),
                   params.spot)
        /\ frame.base_prob = Div(Mul(NumerairePrice, params.strikes[1]), params.spot)
C10_Witness ==
    /\ Returned
    /\ SingleStrike
    /\ params.priced_with = "base"
    /\ params.contract_type = "PUT"
    /\ params.strikes[1] # params.spot
    /\ frame.base_prob > 0

\* the diagnostic record of the markup calculator and the context it was
\* built with
Record == risk_markup.debug_info
Recorded(key) == key \in DOMAIN Record
Contribution(key) == IF Recorded(key) THEN Record[key] ELSE 0
TradedClass ==
    params.market_type \in {"forex", "commodities", "indices", "INDICES",
                            "crypto_basket"}
IndicesClass == params.market_type \in {"indices", "INDICES"}
Coefficients ==
    IF params.markup_parameters = <<>> THEN MarkupParameters
    ELSE params.markup_parameters[1]
TradedRules ==
    {"hour_end_markup", "vol_spread_markup", "spot_spread_markup",
     "smile_uncertainty_markup", "equal_tie_markup"}
ShortDatedNotForSale == ~params.for_sale /\ time_to_expiry <= 18060
VolSpreadAmount(vega) == Min2(Mul(Coefficients.vol_spread, Abs(vega)), 7000)
SpotSpreadAmount(delta) ==
    Max2(0, Min2(Mul(Mul(Coefficients.spot_spread_size, Coefficients.pip_size),
                     Abs(delta)), 100))

\* C11: in a market class that is not traded no traded-market rule
\* contributes; the total markup is 0, or half of the model-arbitrage 0.05
\* when the contract is not for sale and short-dated
C11_NonTradedClassSkipsRuleStack ==
    (Called /\ ~TradedClass) =>
        /\ \A key \in TradedRules : ~Recorded(key)
        /\ frame.markup = IF ShortDatedNotForSale THEN 250 ELSE 0
C11_Witness ==
    /\ Called
    /\ params.market_type = "crypto"
    /\ params.markup_parameters # <<>>
    /\ ~params.is_atm
    /\ ShortDatedNotForSale
    /\ frame.markup = 250

\* C12: in a traded class the vol-spread rule contributes
\* min(vol_spread * |vega|, 0.7) when the contract is not ATM and nothing
\* when it is ATM; the contribution is at most 0.7 and the same for -vega
C12_VolSpreadRule ==
    (Called /\ TradedClass) =>
        IF params.is_atm
        THEN ~Recorded("vol_spread_markup")
        ELSE /\ Recorded("vol_spread_markup")
             /\ Record["vol_spread_markup"] = VolSpreadAmount(frame.vega)
             /\ Record["vol_spread_markup"] <= 7000
             /\ calculate_total_markup(risk_markup, frame.delta, -frame.vega)
                    .debug_info["vol_spread_markup"] = Record["vol_spread_markup"]
C12_Witness ==
    /\ Called
    /\ TradedClass
    /\ ~params.is_atm
    /\ frame.vega < 0
    /\ Mul(Coefficients.vol_spread, -frame.vega) > 7000
    /\ Record["vol_spread_markup"] = 7000

C14_SmileUncertaintyRule ==
    Called =>
        /\ Recorded("smile_uncertainty_markup") <=>
               (IndicesClass /\ time_to_expiry < 7 * 86400 /\ ~params.is_atm)
        /\ Recorded("smile_uncertainty_markup") =>
               Record["smile_uncertainty_markup"] = Coefficients.smile_uncertainty_amount
C14_Witness ==
    /\ Called
    /\ params.market_type = "INDICES"
    /\ time_to_expiry = 7 * 86400 - 1
    /\ params.markup_parameters # <<>>
    /\ Record["smile_uncertainty_markup"] = 300

RuleFires(key) ==
    CASE key = "hour_end_markup" ->
             TradedClass /\ Coefficients.hour_end_markup_parameters # <<>>
      [] key = "vol_spread_markup" -> TradedClass /\ ~params.is_atm
      [] key = "spot_spread_markup" -> TradedClass /\ time_to_expiry > 86400
      [] key = "smile_uncertainty_markup" ->
             IndicesClass /\ time_to_expiry < 7 * 86400 /\ ~params.is_atm
      [] key = "equal_tie_markup" -> TradedClass
      [] key = "model_arbitrage_markup" -> ShortDatedNotForSale
RuleAmount(key) ==
    CASE key = "hour_end_markup" -> 0
      [] key = "vol_spread_markup" -> VolSpreadAmount(frame.vega)
      [] key = "spot_spread_markup" -> SpotSpreadAmount(frame.delta)
      [] key = "smile_uncertainty_markup" -> Coefficients.smile_uncertainty_amount
      [] key = "equal_tie_markup" -> 100
      [] key = "model_arbitrage_markup" -> 500
Rules == TradedRules \cup {"model_arbitrage_markup"}
ContributionSum ==
    Contribution("hour_end_markup") + Contribution("vol_spread_markup")
    + Contribution("spot_spread_markup") + Contribution("smile_uncertainty_markup")
    + Contribution("equal_tie_markup") + Contribution("model_arbitrage_markup")
C16_MarkupIsHalfOfRecordedSum ==
    Called =>
        /\ Abs(2 * frame.markup - ContributionSum) <= 1
        /\ Record["total_markup"] = frame.markup
        /\ DOMAIN Record = {key \in Rules : RuleFires(key)} \cup {"total_markup"}
        /\ \A key \in Rules : Recorded(key) => Record[key] = RuleAmount(key)
C16_Witness ==
    /\ calls = 2
    /\ IndicesClass
    /\ ~params.is_atm
    /\ ShortDatedNotForSale
    /\ params.markup_parameters # <<>>
    /\ ContributionSum > 7000
    /\ 2 * frame.markup = ContributionSum

\* C17: a constructed engine has 0 < time-to-expiry <= 2 years: a duration
\* above 730 days gives exactly 730/365, a shorter one its own length
Duration == params.date_expiry - params.date_start
C17_TimeToExpiryClamped ==
    Constructed =>
        /\ time_to_expiry > 0
        /\ time_to_expiry <= 730 * 86400
        /\ time_to_expiry = IF Duration > 730 * 86400 THEN 730 * 86400 ELSE Duration
C17_Witness ==
    /\ Constructed
    /\ Duration = 731 * 86400
    /\ time_to_expiry = 730 * 86400

\* the tenors of the surface and their distance to time-to-expiry
Tenors == DOMAIN params.vol_surface
TenorDistance(t) == Abs(t * 86400 - time_to_expiry)
NearestTenor ==
    CHOOSE t \in Tenors :
        /\ \A u \in Tenors : TenorDistance(t) <= TenorDistance(u)
        /\ \A u \in Tenors : TenorDistance(u) = TenorDistance(t) => t <= u
Queried == Constructed /\ calls > 0 /\ "vol" \in DOMAIN frame
QueryDelta ==
    delta_coordinate(params.spot, frame.strike, time_to_expiry,
                     params.q_rate, params.r_rate)

\* C18: a surface query reads the smile of the tenor nearest to
\* time-to-expiry * 365 days, the smaller tenor when two are equidistant
C18_NearestTenorBucket ==
    Queried =>
        frame.vol = smile_lookup(params.vol_surface[NearestTenor].smile,
                                 sorted(DOMAIN params.vol_surface[NearestTenor].smile),
                                 QueryDelta)
C18_Witness ==
    /\ Queried
    /\ params.vol_surface = TermSurface
    /\ TenorDistance(7) = TenorDistance(30)
    /\ frame.vol = 800

\* C19: within the chosen smile the query returns the volatility of the
\* lowest delta point at or below it, of the highest delta point at or above
\* it, and otherwise the linear interpolation between the two adjacent
\* points that bracket the coordinate, a value between their volatilities
ChosenSmile == params.vol_surface[NearestTenor].smile
LowestDelta == CHOOSE d \in DOMAIN ChosenSmile : \A e \in DOMAIN ChosenSmile : d <= e
HighestDelta == CHOOSE d \in DOMAIN ChosenSmile : \A e \in DOMAIN ChosenSmile : d >= e
Brackets(a, b) ==
    /\ a < b
    /\ \A e \in DOMAIN ChosenSmile : ~(a < e /\ e < b)
    /\ a * ONE <= QueryDelta /\ QueryDelta <= b * ONE
Interpolates(a, b) ==
    /\ 2 * Abs(frame.vol * (b - a) * ONE
               - (ChosenSmile[a] * (b * ONE - QueryDelta)
                  + ChosenSmile[b] * (QueryDelta - a * ONE))) <= (b - a) * ONE
    /\ frame.vol >= Min2(ChosenSmile[a], ChosenSmile[b])
    /\ frame.vol <= Max2(ChosenSmile[a], ChosenSmile[b])
C19_ClampOrInterpolate ==
    Queried =>
        IF QueryDelta <= LowestDelta * ONE THEN frame.vol = ChosenSmile[LowestDelta]
        ELSE IF QueryDelta >= HighestDelta * ONE THEN frame.vol = ChosenSmile[HighestDelta]
        ELSE \E a, b \in DOMAIN ChosenSmile : Brackets(a, b) /\ Interpolates(a, b)
C19_Witness ==
    /\ Queried
    /\ QueryDelta > 49 * ONE
    /\ QueryDelta < 50 * ONE
    /\ ChosenSmile = SteepSmile
    /\ frame.vol > 500
    /\ frame.vol < 1500

\* C20: with volatility <= 0 or time <= 0 the primitives return their
\* limit: binary_call = 1 if spot > strike else 0, binary_put = 1 if
\* spot < strike else 0, vanilla_call = max(0, spot - strike), vanilla_put =
\* max(0, strike - spot), every delta and vega = 0
PrimitiveCalled == calls > 0 /\ "symbol" \in DOMAIN frame
Degenerate == params.vol <= 0 \/ params.time <= 0
DegenerateLimit(name) ==
    CASE name = "binary_call" -> IF params.spot > params.strike THEN ONE ELSE 0
      [] name = "binary_put" -> IF params.spot < params.strike THEN ONE ELSE 0
      [] name = "vanilla_call" ->
             IF params.spot > params.strike THEN params.spot - params.strike ELSE 0
      [] name = "vanilla_put" ->
             IF params.strike > params.spot THEN params.strike - params.spot ELSE 0
      [] OTHER -> 0
C20_DegenerateLimits ==
    (PrimitiveCalled /\ Degenerate) =>
        /\ raised = "none"
        /\ frame.value = DegenerateLimit(frame.symbol)
C20_Witness ==
    /\ PrimitiveCalled
    /\ params.vol = 0
    /\ params.time > 0
    /\ params.spot = params.strike
    /\ frame.symbol = "binary_call"
    /\ frame.value = 0

\* C21: for spot, strike, time and volatility above 0 and the same rate and
\* carry, binary_call + binary_put is the discount factor e^{-rT} (to the
\* rounding of the two products)
OtherBinary ==
    IF frame.symbol = "binary_call"
    THEN binary_put(params.spot, params.strike, params.time, params.rate,
                    params.div, params.vol)
    ELSE binary_call(params.spot, params.strike, params.time, params.rate,
                     params.div, params.vol)
C21_BinaryPutCallSymmetry ==
    (PrimitiveCalled /\ ~Degenerate /\ params.spot > 0 /\ params.strike > 0
        /\ frame.symbol \in {"binary_call", "binary_put"}) =>
        Abs(frame.value + OtherBinary - Exp(-Mul(params.rate, params.time))) <= 1
C21_Witness ==
    /\ PrimitiveCalled
    /\ ~Degenerate
    /\ frame.symbol = "binary_put"
    /\ params.rate > 0
    /\ params.time = ONE
    /\ params.spot > params.strike
    /\ frame.value > 0
    /\ OtherBinary > frame.value
    /\ frame.value + OtherBinary < ONE

\* C24: a single-strike EXPIRYMISS or EXPIRYRANGE request passes validation,
\* and calculate_probability on it raises the unsupported-contract-type
\* error in every pricing currency instead of returning
SingleStrikeTwoBarrierType ==
    /\ Len(params.strikes) = 1
    /\ params.contract_type \in {"EXPIRYMISS", "EXPIRYRANGE"}
    /\ params.priced_with \in PricingCurrency
    /\ params.date_expiry > params.date_start
C24_SingleStrikeMissOrRangeRaises ==
    (attrs # {} /\ SingleStrikeTwoBarrierType) =>
        /\ Constructed
        /\ calls > 0 => (raised = "ValueError" /\ frame = NoFrame)
C24_Witness ==
    /\ Called
    /\ SingleStrikeTwoBarrierType
    /\ params.contract_type = "EXPIRYRANGE"
    /\ params.priced_with = "quanto"
    /\ raised = "ValueError"

\* C25: a two-strike CALL or PUT request is accepted and never raises; its
\* base probability is that of EXPIRYRANGE on the same inputs
RangeBase ==
    _calculate_base_probability(
        [Self EXCEPT !.params.contract_type = "EXPIRYRANGE"], debug_info).prob
TwoStrikeCallOrPut ==
    /\ Len(params.strikes) = 2
    /\ params.contract_type \in {"CALL", "PUT"}
    /\ params.priced_with \in PricingCurrency
    /\ params.date_expiry > params.date_start
C25_TwoStrikeCallPutPricedAsRange ==
    (attrs # {} /\ TwoStrikeCallOrPut) =>
        /\ Constructed
        /\ calls > 0 => (raised = "none" /\ frame.base_prob = RangeBase)
C25_Witness ==
    /\ Returned
    /\ TwoStrikeCallOrPut
    /\ params.contract_type = "CALL"
    /\ params.strikes[1] # params.strikes[2]
    /\ frame.base_prob = RangeBase
    /\ frame.base_prob # MissBase

\* C30: for a two-strike EXPIRYMISS or EXPIRYRANGE request the delta and
\* vega handed to the markup are the binary-put Greeks at the first-listed
\* strike, at the volatility of that strike
FirstStrike == params.strikes[1]
PutDeltaAt(strike) ==
    delta_binary_put(params.spot, strike, Years(time_to_expiry),
                     params.discount_rate, params.mu, VolAt(strike))
PutVegaAt(strike) ==
    vega_binary_put(params.spot, strike, Years(time_to_expiry),
                    params.discount_rate, params.mu, VolAt(strike))
TwoBarrierReturned ==
    /\ Returned
    /\ Len(params.strikes) = 2
    /\ params.contract_type \in {"EXPIRYMISS", "EXPIRYRANGE"}
C30_GreeksAtFirstListedStrike ==
    TwoBarrierReturned =>
        /\ frame.delta = PutDeltaAt(FirstStrike)
        /\ frame.vega = PutVegaAt(FirstStrike)
        /\ frame.markup =
               calculate_total_markup(
                   [risk_markup EXCEPT !.debug_info = EmptyDict],
                   PutDeltaAt(FirstStrike), PutVegaAt(FirstStrike)).markup
C30_Witness ==
    /\ TwoBarrierReturned
    /\ params.strikes[1] > params.strikes[2]
    /\ frame.delta = PutDeltaAt(FirstStrike)
    /\ frame.delta # PutDeltaAt(LowerStrike)
    /\ frame.vega # PutVegaAt(LowerStrike)

\* C26: two markup calculators that differ only in the forward-starting
\* flag return the same total markup and record the same rules, for every
\* delta and vega
OtherFlagOutcome ==
    calculate_total_markup(
        [risk_markup EXCEPT !.is_forward_starting = ~risk_markup.is_forward_starting,
                            !.debug_info = EmptyDict],
        frame.delta, frame.vega)
C27_SpotSpreadExcludesModelArbitrage ==
    Called => ~(Recorded("spot_spread_markup") /\ Recorded("model_arbitrage_markup"))
C27_Witness ==
    /\ Called
    /\ TradedClass
    /\ ~params.for_sale
    /\ time_to_expiry = 18059
    /\ Recorded("model_arbitrage_markup")
    /\ ~Recorded("spot_spread_markup")

\* C28: with the default markup configuration the total markup lies in
\* [0, 0.405], and is at least 0.005 in a traded market class
C28_DefaultMarkupRange ==
    (Called /\ params.markup_parameters = <<>>) =>
        /\ frame.markup >= 0
        /\ frame.markup <= 4050
        /\ TradedClass => frame.markup >= 50
C28_Witness ==
    /\ Called
    /\ params.markup_parameters = <<>>
    /\ IndicesClass
    /\ Abs(frame.vega) > 70 * ONE
    /\ frame.markup = 4050

\* C29: a surface query never reaches the fallback to the 50 point: it
\* returns from the low clamp, the high clamp or the interpolation, so a
\* smile without a 50 point causes no lookup failure
C29_FallbackNeverReached ==
    (Constructed /\ calls > 0) =>
        /\ raised = "none"
        /\ Queried
        /\ frame.branch \in {"low", "high", "bracket"}
C29_Witness ==
    /\ Queried
    /\ 50 \notin DOMAIN ChosenSmile
    /\ frame.branch = "bracket"
    /\ frame.vol < 900
    /\ frame.vol > 850

\* C23: after calculate_probability on a single-strike NUMERAIRE request the
\* trace under the contract type holds a bs_probability entry and a
\* slope_adjustment entry (with vanilla_vega and slope), and the base
\* probability is the sum of the two amounts
C23_TraceHasBothEntries ==
    NumeraireReturned =>
        /\ params.contract_type \in DOMAIN debug_info
        /\ "bs_probability" \in DOMAIN Trace
        /\ {"amount", "parameters"} \subseteq DOMAIN Trace.bs_probability
        /\ HasSlopeEntry
        /\ {"amount", "parameters"} \subseteq DOMAIN Trace.slope_adjustment
        /\ {"vanilla_vega", "slope"} \subseteq DOMAIN Trace.slope_adjustment.parameters
        /\ frame.base_prob = Trace.bs_probability.amount + Trace.slope_adjustment.amount
\* the same for requests that are not forward-starting, and a forward-starting
\* request leaves a trace without the slope_adjustment entry
C23_TraceOfSpotStarting ==
    NumeraireReturned =>
        /\ params.contract_type \in DOMAIN debug_info
        /\ "bs_probability" \in DOMAIN Trace
        /\ {"amount", "parameters"} \subseteq DOMAIN Trace.bs_probability
        /\ IF ForwardStarting
           THEN ~HasSlopeEntry /\ frame.base_prob = Trace.bs_probability.amount
           ELSE /\ HasSlopeEntry
                /\ {"amount", "parameters"} \subseteq DOMAIN Trace.slope_adjustment
                /\ {"vanilla_vega", "slope"} \subseteq
                       DOMAIN Trace.slope_adjustment.parameters
                /\ frame.base_prob =
                       Trace.bs_probability.amount + Trace.slope_adjustment.amount
C23_ForwardStartingTrace ==
    /\ NumeraireReturned
    /\ ForwardStarting
    /\ DOMAIN Trace = {"bs_probability"}

\* C22: whatever the interleaving of calculate_probability calls by several
\* threads on several engine instances, repeated calls on one instance
\* included, each completed call has the outcome of a single call on a
\* freshly constructed engine with the same request
FreshOutcome(p) ==
    calculate_probability(
        Engine(p, calculate_time_to_expiry(p.date_start, p.date_expiry)),
        EmptyDict, NewRiskMarkup(p))
SameAsFresh(t, f) ==
    /\ raised[t] = f.raised
    /\ f.raised = "none" =>
           /\ frame[t].base_prob = f.base_prob
           /\ frame[t].markup = f.markup
           /\ frame[t].final_prob = f.final_prob
C22_NoStateAcrossCalls ==
    \A t \in Threads :
        frame[t].pc = "done" => SameAsFresh(t, FreshOutcome(params[frame[t].self]))
\* a call completes on an instance whose calculator already holds the total
\* of an earlier call while the other thread is inside the rules of the
\* same instance
C22_Witness ==
    \E t \in Threads : \E u \in Threads \ {t} :
        /\ frame[t].pc = "done"
        /\ raised[t] = "none"
        /\ frame[t].markup > 0
        /\ frame[t].final_prob < ONE
        /\ frame[u].self = frame[t].self
        /\ frame[u].pc = "halve"
        /\ frame[u].markup = 2 * frame[t].markup
        /\ "total_markup" \in DOMAIN risk_markup[frame[t].self].debug_info
        /\ calls >= 2
====
